---- MODULE Spec2Model ----
(***************************************************************************)
(* A model of livelox.py: one run of main(), which audits an auto-scaling  *)
(* group (verify_testcase_a) and then reports its next scheduled action    *)
(* and the day's launch/terminate counts (verify_testcase_b).              *)
(*                                                                         *)
(* The source reads the globals asg_name, datetime and timedelta without   *)
(* defining them: module_globals holds those of them that the importing    *)
(* program has set on the module (none, as the file stands), and reading   *)
(* one that is not there raises NameError.  The three autoscaling API      *)
(* calls answer when the call is made.  Timestamps are integers counting   *)
(* ticks, TicksPerSecond ticks to the second, so that a duration can have  *)
(* a sub-second part; launch and start times are naive, like               *)
(* datetime.now().                                                         *)
(***************************************************************************)
EXTENDS Integers, Sequences, FiniteSets, TLC

\* ---- bounds of the model
MaxInst == 2          \* instances in a describe_auto_scaling_groups answer
MaxTime == 1          \* timestamps (launch, start, now) range over 0..MaxTime
TicksPerSecond == 2   \* resolution of a timestamp
MaxSched == 2         \* scheduled actions in an answer
MaxAct == 3           \* scaling activities in an answer

\* ---- values the API answers are built from
LifecycleStates == {"InService", "Terminating"}
Zones == {"us-east-1a", "us-east-1b"}
GroupIds == {"sg-1", "sg-2"}
ImageIds == {"ami-1", "ami-2"}
VpcIds == {"vpc-1", "vpc-2"}
Times == 0..MaxTime
StatusCodes == {"Successful", "Failed"}
Descriptions ==
  { "Launching a new EC2 instance: i-1",
    "Terminating EC2 instance: i-2",
    "Launching a new EC2",
    "Failed: Launching a new EC2 instance: i-3" }

InstanceFields ==
  [LifecycleState : LifecycleStates, AvailabilityZone : Zones, GroupId : GroupIds,
   ImageId : ImageIds, VpcId : VpcIds, LaunchTime : Times]

\* An instance list; InstanceId is the position in the list.
InstanceList(f) ==
  [i \in DOMAIN f |->
     [InstanceId |-> i,
      LifecycleState |-> f[i].LifecycleState,
      AvailabilityZone |-> f[i].AvailabilityZone,
      GroupId |-> f[i].GroupId,
      ImageId |-> f[i].ImageId,
      VpcId |-> f[i].VpcId,
      LaunchTime |-> f[i].LaunchTime]]

\* The answer of describe_auto_scaling_groups for one name: with or without the
\* key AutoScalingGroups, which lists no group or one descriptor with its
\* DesiredCapacity and, normally, its Instances.
NoResponse == [ResponseMetadata |-> "none"]
ResponseWithoutGroups == [ResponseMetadata |-> "ok"]
Response(groups) == [ResponseMetadata |-> "ok", AutoScalingGroups |-> groups]
GroupWithoutInstances(d) == <<[DesiredCapacity |-> d]>>
OneGroup(d, insts) == <<[DesiredCapacity |-> d, Instances |-> insts]>>

\* The names the source reads as globals and never defines (lines 29, 54, 55,
\* 78, 84, 93, 94); datetime and timedelta come from one import or not at all.
GlobalNames == {"asg_name", "datetime", "timedelta"}
Environments ==
  {g \in SUBSET GlobalNames : ("datetime" \in g) <=> ("timedelta" \in g)}

NoException == [type |-> "none", line |-> 0]
NameError(line) == [type |-> "NameError", line |-> line]
IndexError(line) == [type |-> "IndexError", line |-> line]
TypeError(line) == [type |-> "TypeError", line |-> line]

ScheduledActionList(f) ==
  [i \in DOMAIN f |-> [ScheduledActionName |-> i, StartTime |-> f[i]]]

Activity == [StatusCode : StatusCodes, Description : Descriptions]

VARIABLES
  pc,                        \* the line main() has reached
  module_globals,            \* which of GlobalNames the module has
  raised,                    \* the exception that ended the run, if any
  response,                  \* get_asg_instances: response (line 11)
  instances,                 \* verify_testcase_a: instances
  asg_desired_count,         \* verify_testcase_a: asg_desired_count
  asg_running_count,         \* verify_testcase_a: asg_running_count
  current_time,              \* datetime.now() as last read
  longest_uptime,            \* verify_testcase_a: longest_uptime
  longest_running_instance,  \* << >> is None, <<inst>> an instance
  out_a,                     \* what verify_testcase_a printed
  scheduled_actions,         \* verify_testcase_b: scheduled_actions
  next_action,               \* << >> before line 85, <<action>> after
  elapsed_time,              \* verify_testcase_b: elapsed_time
  out_sched,                 \* what lines 81-90 printed
  activities,                \* verify_testcase_b: activities
  out_counts                 \* what lines 103-104 printed

vars ==
  << pc, module_globals, raised, response, instances, asg_desired_count, asg_running_count, current_time,
     longest_uptime, longest_running_instance, out_a, scheduled_actions,
     next_action, elapsed_time, out_sched, activities, out_counts >>

a_vars ==
  << response, instances, asg_desired_count, asg_running_count,
     longest_uptime, longest_running_instance, out_a >>

b_vars ==
  << scheduled_actions, next_action, elapsed_time, out_sched, activities, out_counts >>

NoOutput == [kind |-> "none"]

\* ---- get_asg_instances (lines 13-18), on the answer of line 11
get_asg_instances(resp) ==
  IF "AutoScalingGroups" \in DOMAIN resp /\ resp.AutoScalingGroups # << >>
    THEN LET asg == resp.AutoScalingGroups[1]
         IN  IF "Instances" \in DOMAIN asg THEN asg.Instances ELSE << >>
    ELSE << >>

\* ---- verify_testcase_a, lines 32-33
AsgDesiredCount(insts) == Len(insts)

AsgRunningCount(insts) ==
  Cardinality({i \in 1..Len(insts) : insts[i].LifecycleState = "InService"})

\* line 39
AvailabilityZones(insts) == {insts[i].AvailabilityZone : i \in 1..Len(insts)}

\* line 40
AZCheckFails(insts) == Cardinality(AvailabilityZones(insts)) < 2

\* line 49 with the VpcId comparison left out
ConfigDiffers_NoVpc(inst, first) ==
  \/ inst.GroupId # first.GroupId
  \/ inst.ImageId # first.ImageId

\* line 49, against the first instance's values (lines 45-47)
ConfigDiffers(inst, first) ==
  \/ inst.GroupId # first.GroupId
  \/ inst.ImageId # first.ImageId
  \/ inst.VpcId # first.VpcId

\* lines 48-51
HomogeneityFails(insts) ==
  \E i \in 1..Len(insts) : ConfigDiffers(insts[i], insts[1])

\* lines 55-62: the loop, from position i on, with the pair it carries
RECURSIVE LongestFrom(_, _, _, _)
LongestFrom(insts, i, now, acc) ==
  IF i > Len(insts) THEN acc
  ELSE LET uptime == now - insts[i].LaunchTime
       IN  LongestFrom(insts, i + 1, now,
             IF uptime > acc.longest_uptime
               THEN [longest_uptime |-> uptime, longest_running_instance |-> <<insts[i]>>]
               ELSE acc)

Longest(insts, now) ==
  LongestFrom(insts, 1, now, [longest_uptime |-> 0, longest_running_instance |-> << >>])

\* ---- verify_testcase_b
\* line 85 taking the first action listed instead of the earliest
NextAction_First(actions) == actions[1]

\* line 85: min(scheduled_actions, key=StartTime) is the first minimal element
NextAction(actions) ==
  LET m == CHOOSE i \in 1..Len(actions) :
             /\ \A j \in 1..Len(actions) : actions[i].StartTime <= actions[j].StartTime
             /\ \A j \in 1..(i - 1) : actions[j].StartTime > actions[i].StartTime
  IN  actions[m]

\* line 87
ElapsedTime(start_time, now) == start_time - now

\* line 88: str(timedelta) cut at the '.', which drops the sub-second part of a
\* timedelta normalised to days/seconds/microseconds with microseconds >= 0:
\* the whole seconds, rounded down.
ElapsedHms(elapsed) == elapsed \div TicksPerSecond

\* str.startswith
StartsWith(s, prefix) ==
  Len(s) >= Len(prefix) /\ SubSeq(s, 1, Len(prefix)) = prefix

LaunchPrefix == "Launching a new EC2 instance"
TerminatePrefix == "Terminating EC2 instance"

\* line 99 without the StatusCode test
IsLaunched_AnyStatus(activity) ==
  StartsWith(activity.Description, LaunchPrefix)

\* line 99 and line 101, the generator's condition
IsLaunched(activity) ==
  activity.StatusCode = "Successful" /\ StartsWith(activity.Description, LaunchPrefix)

IsTerminated(activity) ==
  activity.StatusCode = "Successful" /\ StartsWith(activity.Description, TerminatePrefix)

\* sum(1 for activity in activities if ...)
RECURSIVE LaunchedCount(_)
LaunchedCount(acts) ==
  IF acts = << >> THEN 0
  ELSE (IF IsLaunched(Head(acts)) THEN 1 ELSE 0) + LaunchedCount(Tail(acts))

RECURSIVE TerminatedCount(_)
TerminatedCount(acts) ==
  IF acts = << >> THEN 0
  ELSE (IF IsTerminated(Head(acts)) THEN 1 ELSE 0) + TerminatedCount(Tail(acts))

\* ---- the run
InitLocals ==
  /\ raised = NoException
  /\ response = NoResponse
  /\ instances = << >>
  /\ asg_desired_count = 0
  /\ asg_running_count = 0
  /\ current_time = 0
  /\ longest_uptime = 0
  /\ longest_running_instance = << >>
  /\ out_a = NoOutput
  /\ scheduled_actions = << >>
  /\ next_action = << >>
  /\ elapsed_time = 0
  /\ out_sched = NoOutput
  /\ activities = << >>
  /\ out_counts = NoOutput

Init == pc = "main_108" /\ module_globals \in Environments /\ InitLocals

\* line 108 and line 29: main calls verify_testcase_a, which evaluates asg_name
\* and fetches the instances
A_GetInstances ==
  /\ pc = "main_108"
  /\ IF "asg_name" \notin module_globals
       THEN /\ raised' = NameError(29)
            /\ pc' = "crashed"
            /\ UNCHANGED << response, instances >>
       ELSE /\ \/ response' = ResponseWithoutGroups
               \/ response' = Response(<< >>)
               \/ \E d \in 0..MaxInst : response' = Response(GroupWithoutInstances(d))
               \/ \E d \in 0..MaxInst, n \in 0..MaxInst :
                    \E f \in [1..n -> InstanceFields] :
                      response' = Response(OneGroup(d, InstanceList(f)))
            /\ instances' = get_asg_instances(response')
            /\ pc' = "a_32"
            /\ UNCHANGED raised
  /\ UNCHANGED << asg_desired_count, asg_running_count, current_time, longest_uptime,
                  longest_running_instance, out_a, module_globals >>
  /\ UNCHANGED b_vars

\* lines 32-36
A_CapacityCheck ==
  /\ pc = "a_32"
  /\ asg_desired_count' = AsgDesiredCount(instances)
  /\ asg_running_count' = AsgRunningCount(instances)
  /\ IF asg_desired_count' # asg_running_count'
       THEN out_a' = [kind |-> "CapacityMismatch"] /\ pc' = "a_return"
       ELSE out_a' = out_a /\ pc' = "a_39"
  /\ UNCHANGED << response, instances, current_time, longest_uptime,
                  longest_running_instance, raised, module_globals >>
  /\ UNCHANGED b_vars

\* lines 39-42
A_AZCheck ==
  /\ pc = "a_39"
  /\ IF AZCheckFails(instances)
       THEN out_a' = [kind |-> "InsufficientAZSpread"] /\ pc' = "a_return"
       ELSE out_a' = out_a /\ pc' = "a_45"
  /\ UNCHANGED << response, instances, asg_desired_count, asg_running_count,
                  current_time, longest_uptime, longest_running_instance,
                  raised, module_globals >>
  /\ UNCHANGED b_vars

\* lines 45-51; instances[0] of an empty list raises IndexError
A_HomogeneityCheck ==
  /\ pc = "a_45"
  /\ IF instances = << >>
       THEN out_a' = out_a /\ pc' = "crashed" /\ raised' = IndexError(45)
       ELSE /\ UNCHANGED raised
            /\ IF HomogeneityFails(instances)
                 THEN out_a' = [kind |-> "ConfigurationDrift"] /\ pc' = "a_return"
                 ELSE out_a' = out_a /\ pc' = "a_54"
  /\ UNCHANGED << response, instances, asg_desired_count, asg_running_count,
                  current_time, longest_uptime, longest_running_instance,
                  module_globals >>
  /\ UNCHANGED b_vars

\* lines 54-62; line 54 evaluates datetime, line 55 timedelta
A_UptimeRanking ==
  /\ pc = "a_54"
  /\ IF "datetime" \notin module_globals
       THEN /\ raised' = NameError(54)
            /\ pc' = "crashed"
            /\ UNCHANGED << current_time, longest_uptime, longest_running_instance >>
       ELSE \E now \in Times :
              /\ current_time' = now
              /\ IF "timedelta" \notin module_globals
                   THEN /\ raised' = NameError(55)
                        /\ pc' = "crashed"
                        /\ UNCHANGED << longest_uptime, longest_running_instance >>
                   ELSE /\ longest_uptime' = Longest(instances, now).longest_uptime
                        /\ longest_running_instance' =
                             Longest(instances, now).longest_running_instance
                        /\ pc' = "a_64"
                        /\ UNCHANGED raised
  /\ UNCHANGED << response, instances, asg_desired_count, asg_running_count, out_a,
                  module_globals >>
  /\ UNCHANGED b_vars

\* lines 64-66; None['InstanceId'] raises TypeError after line 64 has printed
A_Report ==
  /\ pc = "a_64"
  /\ IF longest_running_instance = << >>
       THEN /\ out_a' = [kind |-> "Passed"]
            /\ raised' = TypeError(65)
            /\ pc' = "crashed"
       ELSE /\ out_a' = [kind |-> "Passed",
                         instance_id |-> longest_running_instance[1].InstanceId,
                         uptime |-> longest_uptime]
            /\ pc' = "a_return"
            /\ UNCHANGED raised
  /\ UNCHANGED << response, instances, asg_desired_count, asg_running_count,
                  current_time, longest_uptime, longest_running_instance,
                  module_globals >>
  /\ UNCHANGED b_vars

\* line 109 and line 110: verify_testcase_a has returned, its locals are gone;
\* main prints an empty line and calls verify_testcase_b
Main_CallB ==
  /\ pc = "a_return"
  /\ pc' = "b_78"
  /\ response' = NoResponse
  /\ instances' = << >>
  /\ asg_desired_count' = 0
  /\ asg_running_count' = 0
  /\ longest_uptime' = 0
  /\ longest_running_instance' = << >>
  /\ current_time' = 0
  /\ UNCHANGED << out_a, raised, module_globals >>
  /\ UNCHANGED b_vars

\* lines 78-79; line 78 evaluates asg_name
B_GetScheduledActions ==
  /\ pc = "b_78"
  /\ IF "asg_name" \notin module_globals
       THEN /\ raised' = NameError(78)
            /\ pc' = "crashed"
            /\ UNCHANGED scheduled_actions
       ELSE /\ \E n \in 0..MaxSched :
                 \E f \in [1..n -> Times] : scheduled_actions' = ScheduledActionList(f)
            /\ pc' = "b_81"
            /\ UNCHANGED raised
  /\ UNCHANGED << next_action, elapsed_time, out_sched, activities, out_counts >>
  /\ UNCHANGED << current_time, module_globals >>
  /\ UNCHANGED a_vars

\* lines 81-90; line 84 evaluates datetime
B_Schedule ==
  /\ pc = "b_81"
  /\ IF scheduled_actions = << >>
       THEN /\ out_sched' = [kind |-> "NoScheduledActions"]
            /\ pc' = "b_93"
            /\ UNCHANGED << current_time, next_action, elapsed_time, raised >>
       ELSE IF "datetime" \notin module_globals
              THEN /\ raised' = NameError(84)
                   /\ pc' = "crashed"
                   /\ UNCHANGED << current_time, next_action, elapsed_time, out_sched >>
              ELSE \E now \in Times :
                     /\ current_time' = now
                     /\ next_action' = <<NextAction(scheduled_actions)>>
                     /\ elapsed_time' = ElapsedTime(next_action'[1].StartTime, now)
                     /\ out_sched' = [kind |-> "NextScheduledAction",
                                      start_time |-> next_action'[1].StartTime,
                                      elapsed_hms |-> ElapsedHms(elapsed_time')]
                     /\ pc' = "b_93"
                     /\ UNCHANGED raised
  /\ UNCHANGED << scheduled_actions, activities, out_counts, module_globals >>
  /\ UNCHANGED a_vars

\* lines 93-97: the activities of the day, as the API selects them; line 93
\* evaluates datetime, line 94 timedelta, before the call of line 96
B_GetActivities ==
  /\ pc = "b_93"
  /\ IF "datetime" \notin module_globals
       THEN raised' = NameError(93) /\ pc' = "crashed" /\ UNCHANGED activities
       ELSE IF "timedelta" \notin module_globals
              THEN raised' = NameError(94) /\ pc' = "crashed" /\ UNCHANGED activities
              ELSE /\ \E n \in 0..MaxAct :
                        \E answer \in [1..n -> Activity] : activities' = answer
                   /\ pc' = "b_99"
                   /\ UNCHANGED raised
  /\ UNCHANGED << scheduled_actions, next_action, elapsed_time, out_sched, out_counts >>
  /\ UNCHANGED << current_time, module_globals >>
  /\ UNCHANGED a_vars

\* lines 99-104
B_Count ==
  /\ pc = "b_99"
  /\ out_counts' = [kind |-> "Counts",
                    launched_count |-> LaunchedCount(activities),
                    terminated_count |-> TerminatedCount(activities)]
  /\ pc' = "done"
  /\ UNCHANGED << scheduled_actions, next_action, elapsed_time, out_sched, activities >>
  /\ UNCHANGED << current_time, raised, module_globals >>
  /\ UNCHANGED a_vars

NextA ==
  \/ A_GetInstances
  \/ A_CapacityCheck
  \/ A_AZCheck
  \/ A_HomogeneityCheck
  \/ A_UptimeRanking
  \/ A_Report

NextB ==
  \/ B_GetScheduledActions
  \/ B_Schedule
  \/ B_GetActivities
  \/ B_Count

Next ==
  \/ A_GetInstances
  \/ A_CapacityCheck
  \/ A_AZCheck
  \/ A_HomogeneityCheck
  \/ A_UptimeRanking
  \/ A_Report
  \/ Main_CallB
  \/ B_GetScheduledActions
  \/ B_Schedule
  \/ B_GetActivities
  \/ B_Count

\* main(): verify_testcase_a, then verify_testcase_b
Spec == Init /\ [][Next]_vars

\* verify_testcase_a alone, from its call to its return
SpecA == Init /\ [][NextA]_vars

\* verify_testcase_b alone, from its call to its return
InitB == pc = "b_78" /\ module_globals \in Environments /\ InitLocals
SpecB == InitB /\ [][NextB]_vars

\* ---- what the run has done so far
A_Ended == pc \in {"a_return", "crashed"}
CapacityChecked ==
  \/ pc \in {"a_39", "a_45", "a_54", "a_64", "a_return"}
  \/ pc = "crashed" /\ raised.line \in 37..66
CapacityPassed == CapacityChecked /\ out_a.kind # "CapacityMismatch"
AZChecked == CapacityPassed /\ pc # "a_39"
AZPassed == AZChecked /\ out_a.kind # "InsufficientAZSpread"
HomogeneityChecked == AZPassed /\ pc # "a_45"
ScheduleReported ==
  \/ pc \in {"b_93", "b_99", "done"}
  \/ pc = "crashed" /\ raised.line \in 91..104

\* the ASG descriptor's DesiredCapacity, where the describe call found the group
HasDescriptor ==
  "AutoScalingGroups" \in DOMAIN response /\ response.AutoScalingGroups # << >>
DesiredCapacity == response.AutoScalingGroups[1].DesiredCapacity

\* the three rules as section 4.1 of the specification states them
RuleCapacityViolated ==
  Cardinality({i \in DOMAIN instances : instances[i].LifecycleState = "InService"})
    # DesiredCapacity
RuleAZViolated ==
  /\ Len(instances) > 1
  /\ Cardinality({instances[i].AvailabilityZone : i \in DOMAIN instances}) < 2
RuleHomogeneityViolated ==
  \E i \in DOMAIN instances :
    \/ instances[i].GroupId # instances[1].GroupId
    \/ instances[i].ImageId # instances[1].ImageId
    \/ instances[i].VpcId # instances[1].VpcId

\* C1: a snapshot whose InService count equals the descriptor's desired capacity,
\* that spans at least 2 zones when it has more than one instance, and whose
\* instances share security group, image and VPC, makes verify_testcase_a end
\* with Passed (the one-instance and the empty snapshot included).
C1_ConsistentSnapshotPasses ==
  (A_Ended /\ HasDescriptor /\ ~RuleCapacityViolated /\ ~RuleAZViolated
     /\ ~RuleHomogeneityViolated)
    => (pc = "a_return" /\ out_a.kind = "Passed")

\* C2: the capacity check fails exactly when the number of InService instances
\* differs from the desired capacity the ASG descriptor carries.
C2_CapacityAgainstDescriptor ==
  (CapacityChecked /\ HasDescriptor)
    => ((out_a.kind = "CapacityMismatch") <=> RuleCapacityViolated)

\* C3: once the capacity check has passed, the AZ-spread check fails exactly when
\* the snapshot has more than one instance and fewer than 2 distinct zones; one
\* instance alone always passes it.
C3_AZSpreadOnlyForSeveral ==
  (AZChecked /\ HasDescriptor)
    => ((out_a.kind = "InsufficientAZSpread") <=> RuleAZViolated)

\* C4: once the capacity and AZ-spread checks have passed, verify_testcase_a
\* reports ConfigurationDrift exactly when some instance's security group, image
\* or VPC differs from the first instance's; otherwise the check passes.
C4_DriftIffDiffersFromFirst ==
  HomogeneityChecked
    => /\ (out_a.kind = "ConfigurationDrift") <=> RuleHomogeneityViolated
       /\ (out_a.kind = "ConfigurationDrift") => pc = "a_return"
       /\ ~RuleHomogeneityViolated => out_a.kind \in {"none", "Passed"}

\* C4 witness: the second instance agrees with the first on security group and
\* image, differs in VPC only, and the run ended with ConfigurationDrift.
C4_Witness ==
  /\ pc = "a_return"
  /\ out_a.kind = "ConfigurationDrift"
  /\ Len(instances) = 2
  /\ instances[2].GroupId = instances[1].GroupId
  /\ instances[2].ImageId = instances[1].ImageId
  /\ instances[2].VpcId # instances[1].VpcId

\* C5: whenever verify_testcase_a passes, whatever the launch times and the
\* current time, it reports an instance of the snapshot whose uptime is at least
\* every other instance's, the earliest listed among those of maximal uptime.
C5_LongestRunningReported ==
  (A_Ended /\ out_a.kind = "Passed")
    => /\ "instance_id" \in DOMAIN out_a
       /\ out_a.instance_id \in DOMAIN instances
       /\ out_a.uptime = current_time - instances[out_a.instance_id].LaunchTime
       /\ \A j \in DOMAIN instances :
            /\ current_time - instances[j].LaunchTime <= out_a.uptime
            /\ (j < out_a.instance_id
                  => current_time - instances[j].LaunchTime < out_a.uptime)

\* C6: the counts printed are the number of Successful activities whose
\* description begins with the launch prefix and the number of Successful ones
\* beginning with the terminate prefix; no activity is counted in both, the empty
\* list gives (0, 0), and any reordering of the list gives the same two counts.
C6_ActivityCounts ==
  pc = "done"
    => LET launched == {i \in DOMAIN activities :
                          /\ activities[i].StatusCode = "Successful"
                          /\ Len(activities[i].Description) >= Len(LaunchPrefix)
                          /\ SubSeq(activities[i].Description, 1, Len(LaunchPrefix))
                               = LaunchPrefix}
           terminated == {i \in DOMAIN activities :
                            /\ activities[i].StatusCode = "Successful"
                            /\ Len(activities[i].Description) >= Len(TerminatePrefix)
                            /\ SubSeq(activities[i].Description, 1, Len(TerminatePrefix))
                                 = TerminatePrefix}
       IN  /\ out_counts.launched_count = Cardinality(launched)
           /\ out_counts.terminated_count = Cardinality(terminated)
           /\ launched \cap terminated = {}
           /\ activities = << >>
                => out_counts.launched_count = 0 /\ out_counts.terminated_count = 0
           /\ \A p \in Permutations(DOMAIN activities) :
                LET reordered == [i \in DOMAIN activities |-> activities[p[i]]]
                IN  /\ LaunchedCount(reordered) = out_counts.launched_count
                    /\ TerminatedCount(reordered) = out_counts.terminated_count

\* C6 witness: a successful launch, a successful termination and a failed launch,
\* counted as one launch and one termination.
C6_Witness ==
  /\ pc = "done"
  /\ Len(activities) = 3
  /\ \E i \in DOMAIN activities :
       /\ activities[i].StatusCode = "Failed"
       /\ activities[i].Description = "Launching a new EC2 instance: i-1"
  /\ \E i \in DOMAIN activities :
       /\ activities[i].StatusCode = "Successful"
       /\ activities[i].Description = "Terminating EC2 instance: i-2"
  /\ out_counts.launched_count = 1
  /\ out_counts.terminated_count = 1

\* C7: the schedule analysis reports 'no scheduled actions' exactly when the list
\* is empty; otherwise it reports an action of the list whose start is no later
\* than any other's, past ones included, with elapsed = its start minus the
\* current time, negative when the action lies in the past.
C7_EarliestActionAndElapsed ==
  ScheduleReported
    => /\ (out_sched.kind = "NoScheduledActions") <=> (scheduled_actions = << >>)
       /\ scheduled_actions # << >>
            => /\ out_sched.kind = "NextScheduledAction"
               /\ \E i \in DOMAIN scheduled_actions :
                    scheduled_actions[i] = next_action[1]
               /\ \A j \in DOMAIN scheduled_actions :
                    next_action[1].StartTime <= scheduled_actions[j].StartTime
               /\ out_sched.start_time = next_action[1].StartTime
               /\ elapsed_time = next_action[1].StartTime - current_time
               /\ (elapsed_time < 0) <=> (next_action[1].StartTime < current_time)

\* C7 witness: two actions, the second the earlier one and already past.
C7_Witness ==
  /\ pc = "done"
  /\ Len(scheduled_actions) = 2
  /\ scheduled_actions[2].StartTime < scheduled_actions[1].StartTime
  /\ next_action = <<scheduled_actions[2]>>
  /\ elapsed_time < 0

\* C8: verify_testcase_a always ends with a normal Pass or Fail result, never
\* with an exception.
C8_NeverRaises == pc # "crashed"

\* C9: in every run of main, whatever verify_testcase_a found, once the run has
\* ended the schedule analysis and the activity count have been carried out.
C9_TestcaseBAlwaysRuns ==
  pc \in {"done", "crashed"}
    => (out_sched.kind # "none" /\ out_counts.kind # "none")

\* C10: the checks run in the order capacity, AZ-spread, homogeneity, and the run
\* reports the earliest rule in that order that the snapshot violates, or Passed
\* with the longest-running instance when it violates none.
C10_EarliestViolatedRuleReported ==
  (A_Ended /\ HasDescriptor)
    => out_a.kind = (IF RuleCapacityViolated THEN "CapacityMismatch"
                     ELSE IF RuleAZViolated THEN "InsufficientAZSpread"
                     ELSE IF RuleHomogeneityViolated THEN "ConfigurationDrift"
                     ELSE "Passed")

====
